---- MODULE Spec2Model ----
(***************************************************************************)
(* Model of the churn measurer (code_churn_measurement.py) and of the      *)
(* defect-inflow forecaster (defect_forecast_streamlit.py).                *)
(*                                                                         *)
(* Text is a sequence of one-character strings, so that strip, split,      *)
(* startswith, int() and the pathlib parent are computed character by      *)
(* character.  Fractions are pairs <<numerator, denominator>> in lowest    *)
(* terms with a positive denominator (exact arithmetic).                   *)
(***************************************************************************)
EXTENDS Integers, Sequences, FiniteSets, TLC

VARIABLES
    pc,              \* position of the churn run (main)
    git,             \* the completed git process: returncode, stdout, stderr
    lines,           \* main's `lines`
    file_churn,      \* main's `file_churn_list`: sequence of <<added, removed, path>>
    idx,             \* number of records aggregate_churn's loop has folded
    file_metrics,    \* path -> [added, removed(, total_churn)]
    module_metrics,  \* module -> [added, removed(, total_churn)]
    written,         \* the files written so far, oldest first
    error,           \* the message of the exception that ended the run, or NoError
    shard,           \* results of aggregate_churn on a reordering / on two shards
    fpc,             \* position of the forecast script
    csv,             \* the loaded table: header names, defect values, last week start
    ui,              \* the controls: method, window, horizon, alpha
    df_columns,      \* df.columns, renamed in place
    selected,        \* index of the column renamed as defect / week column (0: none)
    y,               \* df["defects_reported"].values
    data,            \* the working series of the moving_average / ewma branch
    forecast,        \* the forecast list
    forecast_df      \* the forecast table (also saved as forecast_output.csv)

churnVars == <<pc, git, lines, file_churn, idx, file_metrics, module_metrics,
               written, error, shard>>

fvars == <<fpc, csv, ui, df_columns, selected, y, data, forecast, forecast_df>>

vars == <<churnVars, fvars>>

(***************************************************************************)
(* Bounds of the model.                                                    *)
(***************************************************************************)
MaxAtoms == 6

MaxLines == 3

MaxRecords == 3

MaxPathLen == 5

MaxHeaderAtoms == 5

MaxSeries == 3

MaxHorizon == 3

(***************************************************************************)
(* Text helpers.                                                           *)
(***************************************************************************)
Whitespace == {" ", "\t", "\n", "\r", "\f"}

Digits == {"0", "1", "2", "3", "4", "5", "6", "7", "8", "9"}

DigitValue(c) ==
    CASE c = "0" -> 0 [] c = "1" -> 1 [] c = "2" -> 2 [] c = "3" -> 3
      [] c = "4" -> 4 [] c = "5" -> 5 [] c = "6" -> 6 [] c = "7" -> 7
      [] c = "8" -> 8 [] c = "9" -> 9

RECURSIVE Concat(_)
Concat(ss) ==
    IF ss = <<>> THEN <<>> ELSE Head(ss) \o Concat(Tail(ss))

RECURSIVE LStrip(_)
LStrip(s) ==
    IF s # <<>> /\ Head(s) \in Whitespace THEN LStrip(Tail(s)) ELSE s

RECURSIVE RStrip(_)
RStrip(s) ==
    IF s # <<>> /\ s[Len(s)] \in Whitespace
    THEN RStrip(SubSeq(s, 1, Len(s) - 1))
    ELSE s

\* str.strip()
Strip(s) == RStrip(LStrip(s))

\* str.startswith(prefix)
StartsWith(s, prefix) ==
    /\ Len(s) >= Len(prefix)
    /\ SubSeq(s, 1, Len(prefix)) = prefix

\* str.split(sep) for a one-character separator
RECURSIVE Split(_, _)
Split(s, sep) ==
    IF \A i \in 1..Len(s) : s[i] # sep
    THEN <<s>>
    ELSE LET i == CHOOSE k \in 1..Len(s) :
                      s[k] = sep /\ \A j \in 1..(k - 1) : s[j] # sep
         IN  <<SubSeq(s, 1, i - 1)>> \o Split(SubSeq(s, i + 1, Len(s)), sep)

\* str.splitlines(): no line for the empty text, none after a final line break
\* (the texts here hold no line boundary other than "\n")
RECURSIVE SplitLines(_)
SplitLines(text) ==
    IF text = <<>> THEN <<>>
    ELSE IF \A i \in 1..Len(text) : text[i] # "\n"
    THEN <<text>>
    ELSE LET i == CHOOSE k \in 1..Len(text) :
                      text[k] = "\n" /\ \A j \in 1..(k - 1) : text[j] # "\n"
         IN  <<SubSeq(text, 1, i - 1)>> \o SplitLines(SubSeq(text, i + 1, Len(text)))

\* The text int() accepts: surrounding whitespace, one optional sign, then
\* digits, single underscores allowed between digits.
IntBody(s) ==
    LET t == Strip(s)
    IN  IF t # <<>> /\ Head(t) \in {"+", "-"} THEN Tail(t) ELSE t

IntParses(s) ==
    LET b == IntBody(s)
    IN  /\ b # <<>>
        /\ \A i \in 1..Len(b) : b[i] \in Digits \cup {"_"}
        /\ b[1] \in Digits
        /\ b[Len(b)] \in Digits
        /\ \A i \in 1..(Len(b) - 1) : ~(b[i] = "_" /\ b[i + 1] = "_")

RECURSIVE DecimalValue(_)
DecimalValue(b) ==
    IF b = <<>> THEN 0
    ELSE IF b[Len(b)] = "_" THEN DecimalValue(SubSeq(b, 1, Len(b) - 1))
    ELSE 10 * DecimalValue(SubSeq(b, 1, Len(b) - 1)) + DigitValue(b[Len(b)])

\* int(s), defined where IntParses(s); elsewhere int() raises ValueError
IntValue(s) ==
    LET t == Strip(s)
    IN  IF t # <<>> /\ Head(t) = "-"
        THEN 0 - DecimalValue(IntBody(s))
        ELSE DecimalValue(IntBody(s))

(***************************************************************************)
(* parse_git_numstat                                                       *)
(***************************************************************************)
Marker == <<"c", "o", "m", "m", "i", "t">>

\* ParseLine without line.strip()
ParseLineUnstripped(raw) ==
    LET parts == Split(raw, "\t")
    IN  IF raw = <<>> \/ StartsWith(raw, Marker) THEN <<>>
        ELSE IF Len(parts) # 3 THEN <<>>
        ELSE IF IntParses(parts[1]) /\ IntParses(parts[2])
        THEN <<  <<IntValue(parts[1]), IntValue(parts[2]), parts[3]>>  >>
        ELSE <<>>

\* One pass of the loop body: the records the line adds to file_churn.
ParseLine(raw) ==
    LET line  == Strip(raw)
        parts == Split(line, "\t")
    IN  IF line = <<>> \/ StartsWith(line, Marker) THEN <<>>
        ELSE IF Len(parts) # 3 THEN <<>>
        ELSE IF IntParses(parts[1]) /\ IntParses(parts[2])
        THEN <<  <<IntValue(parts[1]), IntValue(parts[2]), parts[3]>>  >>
        ELSE <<>>

RECURSIVE parse_git_numstat(_)
parse_git_numstat(ls) ==
    IF ls = <<>> THEN <<>>
    ELSE ParseLine(Head(ls)) \o parse_git_numstat(Tail(ls))

(***************************************************************************)
(* pathlib: Path(path).parent.as_posix() on a POSIX build.                 *)
(***************************************************************************)
RECURSIVE Join(_, _)
Join(parts, sep) ==
    IF parts = <<>> THEN <<>>
    ELSE IF Len(parts) = 1 THEN parts[1]
    ELSE parts[1] \o <<sep>> \o Join(Tail(parts), sep)

\* The root of a path: "/" for a leading slash, "//" for exactly two of them.
PathRoot(path) ==
    IF path = <<>> \/ path[1] # "/" THEN <<>>
    ELSE IF Len(path) >= 2 /\ path[2] = "/" /\ (Len(path) = 2 \/ path[3] # "/")
    THEN <<"/", "/">>
    ELSE <<"/">>

\* The components of a path: empty and "." components are dropped.
PathParts(path) ==
    SelectSeq(Split(path, "/"), LAMBDA c : c # <<>> /\ c # <<".">>)

PurePath(path) == [root |-> PathRoot(path), parts |-> PathParts(path)]

Parent(p) ==
    IF p.parts = <<>> THEN p
    ELSE [root |-> p.root, parts |-> SubSeq(p.parts, 1, Len(p.parts) - 1)]

AsPosix(p) ==
    IF p.root = <<>> /\ p.parts = <<>> THEN <<".">>
    ELSE p.root \o Join(p.parts, "/")

\* ModuleOf keeping only the top-level directory
ModuleOfTopLevel(path) ==
    IF Parent(PurePath(path)) # PurePath(<<".">>)
    THEN AsPosix([root |-> PurePath(path).root,
                  parts |-> IF PurePath(path).parts = <<>> THEN <<>>
                            ELSE <<PurePath(path).parts[1]>>])
    ELSE <<".">>

\* module = Path(path).parent.as_posix() if Path(path).parent != Path('.') else '.'
ModuleOf(path) ==
    IF Parent(PurePath(path)) # PurePath(<<".">>)
    THEN AsPosix(Parent(PurePath(path)))
    ELSE <<".">>

(***************************************************************************)
(* aggregate_churn                                                         *)
(***************************************************************************)
EmptyMetrics == <<>>

\* AddTo with = in place of +=
AddToOverwrites(d, key, added, removed) ==
    [k \in DOMAIN d \cup {key} |->
        IF k = key THEN [added |-> added, removed |-> removed] ELSE d[k]]

\* d[key]['added'] += added; d[key]['removed'] += removed on a defaultdict
AddTo(d, key, added, removed) ==
    [k \in DOMAIN d \cup {key} |->
        IF k = key
        THEN IF k \in DOMAIN d
             THEN [added |-> d[k].added + added, removed |-> d[k].removed + removed]
             ELSE [added |-> 0 + added, removed |-> 0 + removed]
        ELSE d[k]]

\* FoldOne without the module's removed count
FoldOneModuleAddedOnly(fm, mm, rec) ==
    << AddTo(fm, rec[3], rec[1], rec[2]),
       AddTo(mm, ModuleOf(rec[3]), rec[1], 0) >>

\* The loop body: <<file_metrics, module_metrics>> after folding one record.
FoldOne(fm, mm, rec) ==
    << AddTo(fm, rec[3], rec[1], rec[2]),
       AddTo(mm, ModuleOf(rec[3]), rec[1], rec[2]) >>

\* metrics['total_churn'] = metrics['added'] + metrics['removed'] for every key
WithTotals(d) ==
    [k \in DOMAIN d |->
        [added |-> d[k].added, removed |-> d[k].removed,
         total_churn |-> d[k].added + d[k].removed]]

RECURSIVE FoldAll(_, _, _)
FoldAll(fm, mm, recs) ==
    IF recs = <<>> THEN <<fm, mm>>
    ELSE LET r == FoldOne(fm, mm, Head(recs))
         IN  FoldAll(r[1], r[2], Tail(recs))

\* The whole function: <<file_metrics, module_metrics>>.
aggregate_churn(recs) ==
    LET r == FoldAll(EmptyMetrics, EmptyMetrics, recs)
    IN  <<WithTotals(r[1]), WithTotals(r[2])>>

\* Two results merged by summing corresponding fields, key by key.
MergeMetrics(d1, d2) ==
    LET get(d, k, f) == IF k \in DOMAIN d THEN d[k][f] ELSE 0
    IN  [k \in DOMAIN d1 \cup DOMAIN d2 |->
            [added |-> get(d1, k, "added") + get(d2, k, "added"),
             removed |-> get(d1, k, "removed") + get(d2, k, "removed"),
             total_churn |-> get(d1, k, "total_churn") + get(d2, k, "total_churn")]]

(***************************************************************************)
(* main: the churn run, one action per step.                               *)
(***************************************************************************)
NoError == [type |-> "none"]

NoShard == [kind |-> "none"]

\* RunGitLog without the returncode check
RunGitLogUnchecked ==
    /\ pc = "git_log"
    /\ lines' = SplitLines(git.stdout)
    /\ pc' = "parse"
    /\ UNCHANGED <<git, file_churn, idx, file_metrics, module_metrics, written,
                   error, shard>>
    /\ UNCHANGED fvars

\* run_git_log: the process has completed; a non-zero exit raises.
RunGitLog ==
    /\ pc = "git_log"
    /\ IF git.returncode # 0
       THEN /\ error' = [type |-> "RuntimeError",
                         message |-> "Git command failed: ", detail |-> git.stderr]
            /\ pc' = "failed"
            /\ UNCHANGED lines
       ELSE /\ lines' = SplitLines(git.stdout)
            /\ pc' = "parse"
            /\ UNCHANGED error
    /\ UNCHANGED <<git, file_churn, idx, file_metrics, module_metrics, written, shard>>
    /\ UNCHANGED fvars

ParseNumstat ==
    /\ pc = "parse"
    /\ file_churn' = parse_git_numstat(lines)
    /\ idx' = 0
    /\ file_metrics' = EmptyMetrics
    /\ module_metrics' = EmptyMetrics
    /\ pc' = "aggregate"
    /\ UNCHANGED <<git, lines, written, error, shard>>
    /\ UNCHANGED fvars

\* aggregate_churn, one pass of its first loop
FoldRecord ==
    /\ pc = "aggregate"
    /\ idx < Len(file_churn)
    /\ LET r == FoldOne(file_metrics, module_metrics, file_churn[idx + 1])
       IN  /\ file_metrics' = r[1]
           /\ module_metrics' = r[2]
    /\ idx' = idx + 1
    /\ UNCHANGED <<pc, git, lines, file_churn, written, error, shard>>
    /\ UNCHANGED fvars

\* aggregate_churn, its two total_churn loops and the return
ComputeTotals ==
    /\ pc = "aggregate"
    /\ idx = Len(file_churn)
    /\ file_metrics' = WithTotals(file_metrics)
    /\ module_metrics' = WithTotals(module_metrics)
    /\ pc' = "save"
    /\ UNCHANGED <<git, lines, file_churn, idx, written, error, shard>>
    /\ UNCHANGED fvars

\* save_json: open() may fail; otherwise the document is written
SaveJson ==
    /\ pc = "save"
    /\ \/ /\ written' = Append(written,
                [file |-> "args.out",
                 content |-> [files |-> file_metrics, modules |-> module_metrics]])
          /\ pc' = "plot_files"
          /\ UNCHANGED error
       \/ /\ error' = [type |-> "OSError", message |-> "open", detail |-> <<>>]
          /\ pc' = "failed"
          /\ UNCHANGED written
    /\ UNCHANGED <<git, lines, file_churn, idx, file_metrics, module_metrics, shard>>
    /\ UNCHANGED fvars

\* plot_top_files(file_metrics, top_n=10, save_path="top_files_churn.png")
PlotTopFiles ==
    /\ pc = "plot_files"
    /\ \/ /\ written' = Append(written, [file |-> "top_files_churn.png"])
          /\ pc' = "plot_modules"
          /\ UNCHANGED error
       \/ /\ error' = [type |-> "OSError", message |-> "savefig", detail |-> <<>>]
          /\ pc' = "failed"
          /\ UNCHANGED written
    /\ UNCHANGED <<git, lines, file_churn, idx, file_metrics, module_metrics, shard>>
    /\ UNCHANGED fvars

\* plot_modules(module_metrics, save_path="module_churn.png")
PlotModules ==
    /\ pc = "plot_modules"
    /\ \/ /\ written' = Append(written, [file |-> "module_churn.png"])
          /\ pc' = "done"
          /\ UNCHANGED error
       \/ /\ error' = [type |-> "OSError", message |-> "savefig", detail |-> <<>>]
          /\ pc' = "failed"
          /\ UNCHANGED written
    /\ UNCHANGED <<git, lines, file_churn, idx, file_metrics, module_metrics, shard>>
    /\ UNCHANGED fvars

\* aggregate_churn applied to a reordering of the same records
AggregateReordered ==
    /\ pc = "save"
    /\ shard = NoShard
    /\ \E p \in { f \in [1..Len(file_churn) -> 1..Len(file_churn)] :
                    \A i, j \in 1..Len(file_churn) : f[i] = f[j] => i = j } :
         LET r == aggregate_churn([i \in 1..Len(file_churn) |-> file_churn[p[i]]])
         IN  shard' = [kind |-> "reordered",
                       nontrivial |-> \E i \in 1..Len(file_churn) : file_churn[p[i]] # file_churn[i],
                       files |-> r[1], modules |-> r[2]]
    /\ UNCHANGED <<pc, git, lines, file_churn, idx, file_metrics, module_metrics,
                   written, error>>
    /\ UNCHANGED fvars

\* aggregate_churn applied to two shards of the records, the results merged
AggregateSharded ==
    /\ pc = "save"
    /\ shard = NoShard
    /\ \E S \in SUBSET (1..Len(file_churn)) :
         LET in(i) == i \in S
             out(i) == i \notin S
             pos == [i \in 1..Len(file_churn) |-> i]
             a == aggregate_churn([i \in 1..Cardinality(S) |->
                     file_churn[SelectSeq(pos, in)[i]]])
             b == aggregate_churn([i \in 1..(Len(file_churn) - Cardinality(S)) |->
                     file_churn[SelectSeq(pos, out)[i]]])
         IN  shard' = [kind |-> "sharded",
                       nontrivial |-> S # {} /\ S # 1..Len(file_churn),
                       files |-> MergeMetrics(a[1], b[1]),
                       modules |-> MergeMetrics(a[2], b[2])]
    /\ UNCHANGED <<pc, git, lines, file_churn, idx, file_metrics, module_metrics,
                   written, error>>
    /\ UNCHANGED fvars

(***************************************************************************)
(* Inputs of the churn run.                                                *)
(***************************************************************************)
\* The pieces git's output is made of here: a tab, a line break, a digit,
\* the binary-file marker (also the minus sign) and the commit-header marker.
Atoms == { <<"\t">>, <<"\n">>, <<"1">>, <<"-">>, Marker }

Texts(n) == UNION { { Concat(f) : f \in [1..k -> Atoms] } : k \in 0..n }

\* Whole lines, for texts of several records.
SampleLines ==
    { <<"1", "\t", "1", "\t", "a">>,
      <<"2", "\t", "0", "\t", "d", "/", "a">>,
      <<"\t", "0", "\t", "3", "\t", "d", "/", "b", " ">>,
      <<"-", "\t", "-", "\t", "b">>,
      Marker \o <<" ", "1">>,
      <<>> }

LineTexts(n) == UNION { { Join(f, "\n") : f \in [1..k -> SampleLines] } : k \in 0..n }

ForecastIdle ==
    /\ fpc = "not_run"
    /\ csv = <<>>
    /\ ui = <<>>
    /\ df_columns = <<>>
    /\ selected = <<>>
    /\ y = <<>>
    /\ data = <<>>
    /\ forecast = <<>>
    /\ forecast_df = <<>>

InitChurn(g) ==
    /\ pc = "git_log"
    /\ git = g
    /\ lines = <<>>
    /\ file_churn = <<>>
    /\ idx = 0
    /\ file_metrics = EmptyMetrics
    /\ module_metrics = EmptyMetrics
    /\ written = <<>>
    /\ error = NoError
    /\ shard = NoShard
    /\ ForecastIdle

\* The parser on every text of at most MaxAtoms atoms and on every text of at
\* most MaxLines sample lines.
InitParse ==
    \E t \in Texts(MaxAtoms) \cup LineTexts(MaxLines) :
        InitChurn([returncode |-> 0, stdout |-> t, stderr |-> <<>>])

NextParse == RunGitLog \/ ParseNumstat

SpecParse == InitParse /\ [][NextParse]_vars

\* The whole run, for each outcome of the git process.
InitMain ==
    \E rc \in {0, 1, 128}, out \in LineTexts(MaxLines),
       err \in { <<>>, <<"f", "a", "t", "a", "l">>, <<"n", "o", "t", " ", "a", " ", "r", "e", "p", "o">> } :
        InitChurn([returncode |-> rc, stdout |-> out, stderr |-> err])

NextMain ==
    \/ RunGitLog
    \/ ParseNumstat
    \/ FoldRecord
    \/ ComputeTotals
    \/ SaveJson
    \/ PlotTopFiles
    \/ PlotModules

SpecMain == InitMain /\ [][NextMain]_vars

\* aggregate_churn on record lists: up to MaxRecords sample records, and one
\* record (alone or after another) for every path of at most MaxPathLen characters.
SamplePaths ==
    { <<"a">>, <<"d", "/", "a">>, <<"d", "/", "b">> }

SampleRecords ==
    { <<c[1], c[2], p>> : c \in { <<1, 0>>, <<0, 2>>, <<3, 1>> }, p \in SamplePaths }

PathChars == {"a", "/", "."}

Paths(n) == UNION { [1..k -> PathChars] : k \in 1..n }

\* "a/b/c.txt" and "root.txt"
ExamplePaths ==
    { <<"a", "/", "b", "/", "c", ".", "t", "x", "t">>,
      <<"r", "o", "o", "t", ".", "t", "x", "t">> }

RecordLists ==
    UNION { [1..k -> SampleRecords] : k \in 0..MaxRecords }
    \cup { << <<4, 2, p>>, <<1, 3, q>> >> : p, q \in ExamplePaths }
    \cup { << <<2, 1, p>> >> : p \in Paths(MaxPathLen) }
    \cup { << <<1, 1, <<"a", "/", "a">> >>, <<2, 1, p>> >> : p \in Paths(MaxPathLen) }

InitAgg ==
    /\ pc = "aggregate"
    /\ git = [returncode |-> 0, stdout |-> <<>>, stderr |-> <<>>]
    /\ lines = <<>>
    /\ file_churn \in RecordLists
    /\ idx = 0
    /\ file_metrics = EmptyMetrics
    /\ module_metrics = EmptyMetrics
    /\ written = <<>>
    /\ error = NoError
    /\ shard = NoShard
    /\ ForecastIdle

NextAgg ==
    \/ FoldRecord
    \/ ComputeTotals
    \/ AggregateReordered
    \/ AggregateSharded

SpecAgg == InitAgg /\ [][NextAgg]_vars

(***************************************************************************)
(* Exact fractions <<n, d>>, d > 0, in lowest terms.                       *)
(***************************************************************************)
Abs(n) == IF n < 0 THEN 0 - n ELSE n

RECURSIVE GCD(_, _)
GCD(a, b) == IF b = 0 THEN a ELSE GCD(b, a % b)

Frac(n, d) ==
    LET g == GCD(Abs(n), Abs(d))
        sgn == IF d < 0 THEN 0 - 1 ELSE 1
    IN  << (sgn * n) \div g, (sgn * d) \div g >>

FromInt(n) == <<n, 1>>

\* not a number: 0/0
NaN == <<0, 0>>

FAdd(a, b) ==
    LET l == (a[2] \div GCD(a[2], b[2])) * b[2]
    IN  Frac(a[1] * (l \div a[2]) + b[1] * (l \div b[2]), l)

FSub(a, b) == FAdd(a, <<0 - b[1], b[2]>>)

FMul(a, b) ==
    LET x == Frac(a[1], b[2])
        z == Frac(b[1], a[2])
    IN  << x[1] * z[1], x[2] * z[2] >>

FDiv(a, b) == FMul(a, Frac(b[2], b[1]))

RECURSIVE FSum(_)
FSum(seq) == IF seq = <<>> THEN FromInt(0) ELSE FAdd(Head(seq), FSum(Tail(seq)))

\* np.mean
Mean(seq) == FDiv(FSum(seq), FromInt(Len(seq)))

\* np.round(...).astype(int): halves go to the even neighbour
RoundHalfEven(a) ==
    LET q == a[1] \div a[2]
        r == a[1] - q * a[2]
    IN  IF 2 * r < a[2] THEN q
        ELSE IF 2 * r > a[2] THEN q + 1
        ELSE IF q % 2 = 0 THEN q ELSE q + 1

(***************************************************************************)
(* Column detection.                                                       *)
(***************************************************************************)
UpperCase == <<"A", "B", "C", "D", "E", "F", "G", "H", "I", "J", "K", "L", "M",
               "N", "O", "P", "Q", "R", "S", "T", "U", "V", "W", "X", "Y", "Z">>

LowerCase == <<"a", "b", "c", "d", "e", "f", "g", "h", "i", "j", "k", "l", "m",
               "n", "o", "p", "q", "r", "s", "t", "u", "v", "w", "x", "y", "z">>

\* str.lower()
Lower(s) ==
    [i \in 1..Len(s) |->
        IF \E k \in 1..26 : UpperCase[k] = s[i]
        THEN LowerCase[CHOOSE k \in 1..26 : UpperCase[k] = s[i]]
        ELSE s[i]]

\* sub in s
Contains(s, sub) ==
    \E i \in 1..(Len(s) - Len(sub) + 1) : SubSeq(s, i, i + Len(sub) - 1) = sub

DefectToken == <<"d", "e", "f", "e", "c", "t">>

WeekToken == <<"w", "e", "e", "k">>

DefectsReported ==
    <<"d", "e", "f", "e", "c", "t", "s", "_", "r", "e", "p", "o", "r", "t", "e", "d">>

WeekStart == <<"w", "e", "e", "k", "_", "s", "t", "a", "r", "t">>

\* [c for c in df.columns if token in c.lower()]
Matching(cols, token) ==
    SelectSeq(cols, LAMBDA c : Contains(Lower(c), token))

\* df.rename(columns={old: new}, inplace=True): every column labelled old
Rename(cols, old, new) ==
    [i \in 1..Len(cols) |-> IF cols[i] = old THEN new ELSE cols[i]]

FirstLabelled(cols, name) ==
    CHOOSE i \in 1..Len(cols) : cols[i] = name /\ \A j \in 1..(i - 1) : cols[j] # name

\* DetectWeek looking at the names as loaded, not as renamed
DetectWeekOnLoadedNames ==
    /\ fpc = "detect_week"
    /\ LET possible_weeks == Matching(csv.header, WeekToken)
       IN  IF possible_weeks = <<>>
           THEN /\ fpc' = "stopped"
                /\ UNCHANGED <<df_columns, selected>>
           ELSE /\ df_columns' = Rename(df_columns, possible_weeks[1], WeekStart)
                /\ selected' = [selected EXCEPT
                                    !.week = FirstLabelled(csv.header, possible_weeks[1])]
                /\ fpc' = "config"
    /\ UNCHANGED <<csv, ui, y, data, forecast, forecast_df>>
    /\ UNCHANGED churnVars

DetectDefect ==
    /\ fpc = "detect_defect"
    /\ LET possible_cols == Matching(df_columns, DefectToken)
       IN  IF possible_cols = <<>>
           THEN /\ fpc' = "stopped"
                /\ UNCHANGED <<df_columns, selected>>
           ELSE /\ df_columns' = Rename(df_columns, possible_cols[1], DefectsReported)
                /\ selected' = [selected EXCEPT
                                    !.defect = FirstLabelled(df_columns, possible_cols[1])]
                /\ fpc' = "detect_week"
    /\ UNCHANGED <<csv, ui, y, data, forecast, forecast_df>>
    /\ UNCHANGED churnVars

DetectWeek ==
    /\ fpc = "detect_week"
    /\ LET possible_weeks == Matching(df_columns, WeekToken)
       IN  IF possible_weeks = <<>>
           THEN /\ fpc' = "stopped"
                /\ UNCHANGED <<df_columns, selected>>
           ELSE /\ df_columns' = Rename(df_columns, possible_weeks[1], WeekStart)
                /\ selected' = [selected EXCEPT
                                    !.week = FirstLabelled(df_columns, possible_weeks[1])]
                /\ fpc' = "config"
    /\ UNCHANGED <<csv, ui, y, data, forecast, forecast_df>>
    /\ UNCHANGED churnVars

(***************************************************************************)
(* Forecast logic.                                                         *)
(***************************************************************************)
\* y = df["defects_reported"].values; forecast = []
StartForecast ==
    /\ fpc = "config"
    /\ y' = csv.defects
    /\ data' = [i \in 1..Len(csv.defects) |-> FromInt(csv.defects[i])]
    /\ forecast' = <<>>
    /\ fpc' = "forecast"
    /\ UNCHANGED <<csv, ui, df_columns, selected, forecast_df>>
    /\ UNCHANGED churnVars

\* forecast = [y[-1]] * horizon
Naive ==
    /\ fpc = "forecast"
    /\ ui.method = "naive"
    /\ forecast' = [k \in 1..ui.horizon |-> FromInt(y[Len(y)])]
    /\ fpc' = "table"
    /\ UNCHANGED <<csv, ui, df_columns, selected, y, data, forecast_df>>
    /\ UNCHANGED churnVars

\* The mean over the series itself, the forecasts never fed back
MovingAverageOfHistory(series, window) ==
    LET hist == SubSeq(series, 1, Len(y))
    IN  IF Len(hist) >= window
        THEN Mean(SubSeq(hist, Len(hist) - window + 1, Len(hist)))
        ELSE Mean(hist)

\* np.mean(data[-window:]) if len(data) >= window else np.mean(data)
MovingAverageValue(series, window) ==
    IF Len(series) >= window
    THEN Mean(SubSeq(series, Len(series) - window + 1, Len(series)))
    ELSE Mean(series)

\* one pass of the moving_average loop
MovingAverageStep ==
    /\ fpc = "forecast"
    /\ ui.method = "moving_average"
    /\ Len(forecast) < ui.horizon
    /\ LET ma == MovingAverageValue(data, ui.window)
       IN  /\ forecast' = Append(forecast, ma)
           /\ data' = Append(data, ma)
    /\ fpc' = IF Len(forecast) + 1 = ui.horizon THEN "table" ELSE "forecast"
    /\ UNCHANGED <<csv, ui, df_columns, selected, y, forecast_df>>
    /\ UNCHANGED churnVars

RECURSIVE EwmaFold(_, _, _)
EwmaFold(s, vals, alpha) ==
    IF vals = <<>> THEN s
    ELSE EwmaFold(FAdd(FMul(alpha, Head(vals)), FMul(FSub(FromInt(1), alpha), s)),
                  Tail(vals), alpha)

RECURSIVE EwmaFoldSwapped(_, _, _)
EwmaFoldSwapped(s, vals, alpha) ==
    IF vals = <<>> THEN s
    ELSE EwmaFoldSwapped(FAdd(FMul(FSub(FromInt(1), alpha), Head(vals)), FMul(alpha, s)),
                         Tail(vals), alpha)

\* EwmaValue with the two weights exchanged
EwmaValueSwappedWeights(series, alpha) == EwmaFoldSwapped(series[1], Tail(series), alpha)

\* s = data[0]; for val in data[1:]: s = alpha * val + (1 - alpha) * s
EwmaValue(series, alpha) == EwmaFold(series[1], Tail(series), alpha)

\* one pass of the ewma loop
EwmaStep ==
    /\ fpc = "forecast"
    /\ ui.method = "ewma"
    /\ Len(forecast) < ui.horizon
    /\ LET s == EwmaValue(data, ui.alpha)
       IN  /\ forecast' = Append(forecast, s)
           /\ data' = Append(data, s)
    /\ fpc' = IF Len(forecast) + 1 = ui.horizon THEN "table" ELSE "forecast"
    /\ UNCHANGED <<csv, ui, df_columns, selected, y, forecast_df>>
    /\ UNCHANGED churnVars

RECURSIVE SumSeq(_)
SumSeq(seq) == IF seq = <<>> THEN 0 ELSE Head(seq) + SumSeq(Tail(seq))

\* np.polyfit(x, y, 1) then np.polyval: the least-squares line through
\* (0, y[0]) .. (n-1, y[n-1]), evaluated at x (n >= 2)
LinearValue(series, x) ==
    LET n   == Len(series)
        sx  == SumSeq([i \in 1..n |-> i - 1])
        sy  == SumSeq(series)
        sxy == SumSeq([i \in 1..n |-> (i - 1) * series[i]])
        sxx == SumSeq([i \in 1..n |-> (i - 1) * (i - 1)])
        slope == Frac(n * sxy - sx * sy, n * sxx - sx * sx)
        intercept == FDiv(FSub(FromInt(sy), FMul(slope, FromInt(sx))), FromInt(n))
    IN  FAdd(FMul(slope, FromInt(x)), intercept)

\* A single point leaves the fit undetermined: the scaled design matrix holds
\* NaN, and the solver either raises LinAlgError or returns NaN.
Linear ==
    /\ fpc = "forecast"
    /\ ui.method = "linear"
    /\ IF Len(y) >= 2
       THEN /\ forecast' = [k \in 1..ui.horizon |-> LinearValue(y, Len(y) + k - 1)]
            /\ fpc' = "table"
       ELSE \E raises \in BOOLEAN :
              IF raises
              THEN /\ fpc' = "failed"
                   /\ UNCHANGED forecast
              ELSE /\ forecast' = [k \in 1..ui.horizon |-> NaN]
                   /\ fpc' = "table"
    /\ UNCHANGED <<csv, ui, df_columns, selected, y, data, forecast_df>>
    /\ UNCHANGED churnVars

(***************************************************************************)
(* The forecast table.  Dates are day numbers, day 0 being Monday          *)
(* 2024-01-01; strftime turns a day number into <<year, month, day>>.      *)
(***************************************************************************)
MonthLengths == <<31, 29, 31, 30, 31, 30, 31, 31, 30, 31, 30, 31>>

RECURSIVE DateInMonth(_, _)
DateInMonth(d, m) ==
    IF d < MonthLengths[m] THEN <<2024, m, d + 1>>
    ELSE DateInMonth(d - MonthLengths[m], m + 1)

\* strftime("%Y-%m-%d")
FormatDate(d) == DateInMonth(d, 1)

\* Timestamp.dayofweek: Monday is 0, Sunday is 6
DayOfWeek(d) == d % 7

\* pd.date_range(start, periods, freq="W"): weekly dates anchored on Sunday,
\* the first being start rolled forward to a Sunday
DateRangeWeekly(start, periods) ==
    LET first == start + ((6 - DayOfWeek(start)) % 7)
    IN  [k \in 1..periods |-> first + 7 * (k - 1)]

\* future_weeks, forecast_df, and forecast_df.to_csv
BuildForecastTable ==
    /\ fpc = "table"
    /\ Len(forecast) = ui.horizon
    /\ LET future_weeks == DateRangeWeekly(csv.last_week + 7, ui.horizon)
       IN  forecast_df' =
             [k \in 1..ui.horizon |->
                [week_start |-> FormatDate(future_weeks[k]),
                 forecast_defects |->
                    IF forecast[k] = NaN THEN "undefined"
                    ELSE RoundHalfEven(forecast[k])]]
    /\ fpc' = "done"
    /\ UNCHANGED <<csv, ui, df_columns, selected, y, data, forecast>>
    /\ UNCHANGED churnVars

(***************************************************************************)
(* Inputs of the forecast script.                                          *)
(***************************************************************************)
ChurnIdle ==
    /\ pc = "not_run"
    /\ git = <<>>
    /\ lines = <<>>
    /\ file_churn = <<>>
    /\ idx = 0
    /\ file_metrics = EmptyMetrics
    /\ module_metrics = EmptyMetrics
    /\ written = <<>>
    /\ error = NoError
    /\ shard = NoShard

\* Header rows: at most MaxHeaderAtoms pieces, a comma separating the names;
\* the loader hands over non-empty, pairwise different names.
HeaderAtoms == { <<"W", "e", "e", "k">>, <<"D", "e", "f", "e", "c", "t">>, <<"x">>, <<",">> }

Headers(n) ==
    { h \in UNION { { Split(Concat(f), ",") : f \in [1..k -> HeaderAtoms] } : k \in 1..n } :
        /\ \A i \in 1..Len(h) : h[i] # <<>>
        /\ \A i, j \in 1..Len(h) : h[i] = h[j] => i = j }

\* ["Week_Start", "DefectCount"]
ExampleHeader ==
    << <<"W", "e", "e", "k", "_", "S", "t", "a", "r", "t">>,
       <<"D", "e", "f", "e", "c", "t", "C", "o", "u", "n", "t">> >>

DefaultUi == [method |-> "moving_average", window |-> 3, horizon |-> 4, alpha |-> <<3, 10>>]

InitColumns ==
    /\ fpc = "detect_defect"
    /\ \E h \in Headers(MaxHeaderAtoms) \cup {ExampleHeader} :
          /\ csv = [header |-> h, defects |-> <<1, 2, 3>>, last_week |-> 0]
          /\ df_columns = h
    /\ ui = DefaultUi
    /\ selected = [defect |-> 0, week |-> 0]
    /\ y = <<>>
    /\ data = <<>>
    /\ forecast = <<>>
    /\ forecast_df = <<>>
    /\ ChurnIdle

NextColumns == DetectDefect \/ DetectWeek

SpecColumns == InitColumns /\ [][NextColumns]_vars

\* The controls: each method, with the settings it reads.
UiChoices ==
    { [method |-> m, window |-> 3, horizon |-> h, alpha |-> <<3, 10>>] :
          m \in {"naive", "linear"}, h \in 1..MaxHorizon }
    \cup { [method |-> "moving_average", window |-> w, horizon |-> h, alpha |-> <<3, 10>>] :
          w \in {2, 3}, h \in 1..MaxHorizon }
    \cup { [method |-> "ewma", window |-> 3, horizon |-> h, alpha |-> a] :
          a \in { <<1, 10>>, <<3, 10>>, <<1, 2>>, <<9, 10>> }, h \in 1..MaxHorizon }

Series == UNION { [1..n -> 0..3] : n \in 1..MaxSeries }

\* The script after column detection, on every series, control setting and
\* weekday of the last historical week.
InitForecast ==
    /\ fpc = "config"
    /\ \E s \in Series, d \in 0..6 :
          csv = [header |-> ExampleHeader, defects |-> s, last_week |-> d]
    /\ df_columns = <<WeekStart, DefectsReported>>
    /\ selected = [defect |-> 2, week |-> 1]
    /\ ui \in UiChoices
    /\ y = <<>>
    /\ data = <<>>
    /\ forecast = <<>>
    /\ forecast_df = <<>>
    /\ ChurnIdle

NextForecast ==
    \/ StartForecast
    \/ Naive
    \/ MovingAverageStep
    \/ EwmaStep
    \/ Linear
    \/ BuildForecastTable

SpecForecast == InitForecast /\ [][NextForecast]_vars

(***************************************************************************)
(* Properties of the churn run.                                            *)
(***************************************************************************)
RECURSIVE SumOver(_, _, _)
SumOver(keys, d, f) ==
    IF keys = {} THEN 0
    ELSE LET k == CHOOSE x \in keys : TRUE
         IN  d[k][f] + SumOver(keys \ {k}, d, f)

RECURSIVE GrandTotal(_)
GrandTotal(recs) ==
    IF recs = <<>> THEN 0
    ELSE Head(recs)[1] + Head(recs)[2] + GrandTotal(Tail(recs))

RECURSIVE RecordSum(_, _, _)
RecordSum(recs, path, n) ==
    IF recs = <<>> THEN 0
    ELSE (IF Head(recs)[3] = path THEN Head(recs)[n] ELSE 0)
         + RecordSum(Tail(recs), path, n)

\* C1: after every prefix of the fold each file metric is the sum of the
\* records of its path, each module metric is the sum of the metrics of the
\* files whose parent directory is that module, and once total_churn is derived
\* the file totals, the module totals and the grand total of added + removed
\* over the records all agree.
C1_ModuleTotalsMatchFiles ==
    pc \in {"aggregate", "save"} =>
        LET folded == SubSeq(file_churn, 1, idx)
            fields == IF pc = "save" THEN {"added", "removed", "total_churn"}
                      ELSE {"added", "removed"}
            filesOf(m) == { p \in DOMAIN file_metrics : ModuleOf(p) = m }
        IN  /\ DOMAIN file_metrics = { folded[i][3] : i \in 1..idx }
            /\ DOMAIN module_metrics = { ModuleOf(p) : p \in DOMAIN file_metrics }
            /\ \A p \in DOMAIN file_metrics :
                  /\ file_metrics[p].added = RecordSum(folded, p, 1)
                  /\ file_metrics[p].removed = RecordSum(folded, p, 2)
            /\ \A m \in DOMAIN module_metrics : \A f \in fields :
                  module_metrics[m][f] = SumOver(filesOf(m), file_metrics, f)
            /\ pc = "save" =>
                  /\ \A p \in DOMAIN file_metrics :
                        file_metrics[p].total_churn
                            = RecordSum(folded, p, 1) + RecordSum(folded, p, 2)
                  /\ SumOver(DOMAIN file_metrics, file_metrics, "total_churn")
                        = GrandTotal(file_churn)
                  /\ SumOver(DOMAIN module_metrics, module_metrics, "total_churn")
                        = GrandTotal(file_churn)

\* Three files in two modules, totals derived.
C1_Witness ==
    /\ pc = "save"
    /\ Cardinality(DOMAIN file_metrics) = 3
    /\ Cardinality(DOMAIN module_metrics) = 2
    /\ \E m \in DOMAIN module_metrics :
          Cardinality({ p \in DOMAIN file_metrics : ModuleOf(p) = m }) = 2

\* The conditions of the parser's contract on a line, and the record of a line.
Qualifies(l) ==
    /\ l # <<>>
    /\ ~StartsWith(l, Marker)
    /\ Len(Split(l, "\t")) = 3
    /\ IntParses(Split(l, "\t")[1])
    /\ IntParses(Split(l, "\t")[2])

RecordOf(l) ==
    << IntValue(Split(l, "\t")[1]), IntValue(Split(l, "\t")[2]), Split(l, "\t")[3] >>

RECURSIVE RecordsOfStripped(_)
RecordsOfStripped(ls) ==
    IF ls = <<>> THEN <<>>
    ELSE (IF Qualifies(Strip(Head(ls))) THEN <<RecordOf(Strip(Head(ls)))>> ELSE <<>>)
         \o RecordsOfStripped(Tail(ls))

\* C2 (as amended): the parser never raises and emits, in input order, exactly
\* one record for each line that, once its leading and trailing whitespace is
\* stripped, is non-empty, does not start with 'commit', splits into exactly
\* three tab-separated fields and has integer first and second fields; the
\* record holds the two integers and the stripped line's third field; no other
\* line yields a record or changes the records of the other lines.
C2_ParserEmitsStrippedQualifyingLines ==
    pc = "aggregate" =>
        /\ error = NoError
        /\ file_churn = RecordsOfStripped(lines)

\* A line accepted only once stripped, a binary-file line skipped, two records.
C2_Witness ==
    /\ pc = "aggregate"
    /\ Len(file_churn) = 2
    /\ \E i \in 1..Len(lines) : ~Qualifies(lines[i]) /\ Qualifies(Strip(lines[i]))
    /\ \E i \in 1..Len(lines) : Split(lines[i], "\t")[1] = <<"-">>
    /\ file_churn[1] # file_churn[2]

\* C2 (as stated): a record for each line that is itself non-empty, does not
\* start with 'commit', splits into exactly three tab-separated fields and has
\* integer first and second fields, and for no other line.
C2_Original ==
    pc = "aggregate" =>
        Len(file_churn) = Cardinality({ i \in 1..Len(lines) : Qualifies(lines[i]) })

\* C3: a non-zero exit of git ends the run with an error carrying git's stderr
\* and nothing is ever written; a run ends normally only with exit status zero,
\* after the output document and then the two images were written, in that order.
C3_GitFailureWritesNothing ==
    LET names == [i \in 1..Len(written) |-> written[i].file]
        all   == <<"args.out", "top_files_churn.png", "module_churn.png">>
    IN  /\ git.returncode # 0 =>
              /\ written = <<>>
              /\ pc \in {"git_log", "failed"}
              /\ pc = "failed" =>
                    /\ error.type = "RuntimeError"
                    /\ error.detail = git.stderr
        /\ Len(names) <= 3 /\ names = SubSeq(all, 1, Len(names))
        /\ pc = "done" =>
              /\ git.returncode = 0
              /\ error = NoError
              /\ names = all
              /\ written[1].content = [files |-> file_metrics, modules |-> module_metrics]

\* git failed, with text on both streams: the run has ended, nothing written.
C3_Witness ==
    /\ pc = "failed"
    /\ git.returncode # 0
    /\ git.stderr # <<>>
    /\ git.stdout # <<>>
    /\ written = <<>>

\* What "the parent directory of the path" means, read off the text of the path.
PathSegments(path) == Split(path, "/")

\* The path names an entry of the repository root: relative, one name at most.
NoParentDir(path) ==
    /\ path = <<>> \/ path[1] # "/"
    /\ Cardinality({ i \in 1..Len(PathSegments(path)) :
                        PathSegments(path)[i] \notin { <<>>, <<".">> } }) <= 1

\* directory/.../name with no empty and no "." segment
CleanNestedPath(path) ==
    /\ Len(PathSegments(path)) >= 2
    /\ \A i \in 1..Len(PathSegments(path)) :
          PathSegments(path)[i] \notin { <<>>, <<".">> }

\* the text before the last slash
TextDirName(path) ==
    LET last == CHOOSE k \in 1..Len(path) :
                    path[k] = "/" /\ \A j \in (k + 1)..Len(path) : path[j] # "/"
    IN  SubSeq(path, 1, last - 1)

ModuleStep(mm, mm2, rec) ==
    LET hit == { m \in DOMAIN mm2 : mm2 = AddTo(mm, m, rec[1], rec[2]) }
    IN  /\ Cardinality(hit) = 1
        /\ SumOver(DOMAIN mm2, mm2, "added")
              = SumOver(DOMAIN mm, mm, "added") + rec[1]
        /\ SumOver(DOMAIN mm2, mm2, "removed")
              = SumOver(DOMAIN mm, mm, "removed") + rec[2]
        /\ (<<".">> \in hit) <=> NoParentDir(rec[3])
        /\ CleanNestedPath(rec[3]) => TextDirName(rec[3]) \in hit
        /\ rec[3] = <<"a", "/", "b", "/", "c", ".", "t", "x", "t">>
              => hit = { <<"a", "/", "b">> }
        /\ rec[3] = <<"r", "o", "o", "t", ".", "t", "x", "t">> => hit = { <<".">> }

\* C4: folding a record adds its counts to exactly one module: the parent
\* directory of its path ("a/b/c.txt" to "a/b"), and the sentinel "." exactly
\* when the path has no parent directory ("root.txt").
C4_RecordGoesToParentModule ==
    [][ (pc = "aggregate" /\ idx' = idx + 1)
            => ModuleStep(module_metrics, module_metrics', file_churn[idx + 1]) ]_vars

\* "a/b/c.txt" was folded after "root.txt": modules "." and "a/b".
C4_Witness ==
    /\ pc = "aggregate"
    /\ idx = 2
    /\ file_churn[1][3] = <<"r", "o", "o", "t", ".", "t", "x", "t">>
    /\ file_churn[2][3] = <<"a", "/", "b", "/", "c", ".", "t", "x", "t">>
    /\ DOMAIN module_metrics = { <<".">>, <<"a", "/", "b">> }

\* C8: every record the parser emits has added >= 0 and removed >= 0.
C8_RecordsNonNegative ==
    \A i \in 1..Len(file_churn) : file_churn[i][1] >= 0 /\ file_churn[i][2] >= 0

\* C9: aggregating any reordering of the records, or aggregating two shards
\* and summing the results key by key, gives the mappings of the whole list.
C9_OrderAndShardIndependent ==
    shard.kind # "none" =>
        /\ shard.files = file_metrics
        /\ shard.modules = module_metrics

\* Two proper shards of three records that share a path were merged.
C9_Witness ==
    /\ shard.kind = "sharded"
    /\ shard.nontrivial
    /\ Len(file_churn) = 3
    /\ Cardinality(DOMAIN file_metrics) = 2
    /\ Cardinality(DOMAIN module_metrics) = 2

(***************************************************************************)
(* Properties of the forecast script.                                      *)
(***************************************************************************)
\* C5: the forecast table has exactly horizon rows and its k-th week_start is
\* 7k days after the last historical week_start, whatever its weekday.
C5_ForecastWeeksContiguous ==
    fpc = "done" =>
        /\ Len(forecast_df) = ui.horizon
        /\ \A k \in 1..ui.horizon :
              forecast_df[k].week_start = FormatDate(csv.last_week + 7 * k)

MinOf(S) == CHOOSE i \in S : \A j \in S : i <= j

HasToken(name, token) == Contains(Lower(name), token)

\* C6 (as amended): the defect column is the first loaded column whose
\* lowercased name contains "defect"; the week column is the first column
\* other than that defect column whose lowercased name contains "week"; with
\* no such column the session stops; ["Week_Start", "DefectCount"] gives
\* "DefectCount" and "Week_Start".
C6_FirstMatchAfterDefectRename ==
    LET n == Len(csv.header)
        D == { i \in 1..n : HasToken(csv.header[i], DefectToken) }
        W == { i \in 1..n : i # selected.defect /\ HasToken(csv.header[i], WeekToken) }
    IN  /\ fpc \in {"detect_week", "config", "stopped"} =>
              IF D = {} THEN fpc = "stopped" /\ selected.defect = 0
              ELSE /\ selected.defect = MinOf(D)
                   /\ df_columns[selected.defect] = DefectsReported
        /\ (fpc \in {"config", "stopped"} /\ D # {}) =>
              IF W = {} THEN fpc = "stopped" /\ selected.week = 0
              ELSE /\ fpc = "config"
                   /\ selected.week = MinOf(W)
                   /\ df_columns[selected.week] = WeekStart
        /\ (fpc = "config" /\ csv.header = ExampleHeader) =>
              selected = [defect |-> 2, week |-> 1]

\* The first column holds both words and a later one holds "week".
C6_Witness ==
    /\ fpc = "config"
    /\ HasToken(csv.header[1], DefectToken)
    /\ HasToken(csv.header[1], WeekToken)
    /\ selected = [defect |-> 1, week |-> 2]

\* C6 (as stated): the week column is the first loaded column whose lowercased
\* name contains "week", also when that name contains "defect" as well.
C6_Original ==
    LET n == Len(csv.header)
        D == { i \in 1..n : HasToken(csv.header[i], DefectToken) }
        W == { i \in 1..n : HasToken(csv.header[i], WeekToken) }
    IN  (fpc \in {"config", "stopped"} /\ D # {} /\ W # {}) =>
            /\ selected.defect = MinOf(D)
            /\ selected.week = MinOf(W)

\* The mean the contract names: of the last w values, or of all of them when
\* there are fewer than w.
ContractMean(ws, w) ==
    LET n == Len(ws)
        from == IF n < w THEN 1 ELSE n - w + 1
    IN  FDiv(FSum(SubSeq(ws, from, n)), FromInt(n - from + 1))

\* C7: each moving_average forecast is the unrounded mean of the last window
\* values of the working series (history, then the earlier forecasts), or of
\* the whole working series when it is shorter than the window, and is appended
\* to the working series; [1,2,3], window 2, horizon 2 gives [2.5, 2.75].
C7_MovingAverageFeedsBack ==
    (ui.method = "moving_average" /\ fpc \in {"forecast", "table", "done"}) =>
        LET hist == [i \in 1..Len(y) |-> FromInt(y[i])]
        IN  /\ data = hist \o forecast
            /\ \A i \in 1..Len(forecast) :
                  forecast[i] = ContractMean(hist \o SubSeq(forecast, 1, i - 1), ui.window)
            /\ (y = <<1, 2, 3>> /\ ui.window = 2 /\ Len(forecast) >= 2) =>
                  SubSeq(forecast, 1, 2) = << <<5, 2>>, <<11, 4>> >>

\* [1,2,3], window 2: the second forecast has been made from the first.
C7_Witness ==
    /\ ui.method = "moving_average"
    /\ ui.window = 2
    /\ y = <<1, 2, 3>>
    /\ forecast = << <<5, 2>>, <<11, 4>> >>
    /\ fpc = "table"

\* The standard recurrence over the first n values: s := alpha*v + (1-alpha)*s.
RECURSIVE StandardEwma(_, _, _)
StandardEwma(vals, alpha, n) ==
    IF n = 1 THEN FromInt(vals[1])
    ELSE FAdd(FMul(alpha, FromInt(vals[n])),
              FMul(FSub(FromInt(1), alpha), StandardEwma(vals, alpha, n - 1)))

\* The running state after k forecasts, each forecast being the state and
\* being fed back as the next observation.
RECURSIVE RunningState(_, _, _)
RunningState(vals, alpha, k) ==
    IF k = 0 THEN StandardEwma(vals, alpha, Len(vals))
    ELSE LET s == RunningState(vals, alpha, k - 1)
         IN  FAdd(FMul(alpha, s), FMul(FSub(FromInt(1), alpha), s))

\* C10: the ewma forecasts, each recomputed from the first value of the growing
\* series, are those of an incremental EWMA carrying one running state, and all
\* equal the EWMA of the historical series.
C10_EwmaEqualsIncremental ==
    (ui.method = "ewma" /\ fpc \in {"forecast", "table", "done"}) =>
        \A k \in 1..Len(forecast) :
            /\ forecast[k] = RunningState(y, ui.alpha, k - 1)
            /\ forecast[k] = StandardEwma(y, ui.alpha, Len(y))

\* Three forecasts over a series of three different values.
C10_Witness ==
    /\ ui.method = "ewma"
    /\ ui.alpha = <<3, 10>>
    /\ y = <<1, 3, 2>>
    /\ Len(forecast) = 3
    /\ forecast[3] # FromInt(2)

====
